---- MODULE Spec2Model ----
(***************************************************************************)
(* Shared-file reconciliation of the Fixture Control System                *)
(* (src/Fixture_Control_V1.py): prepare_excel_file_on_startup,             *)
(* manage_excel_files_on_save, get_newest_excel_file and the handlers that *)
(* write the inventory workbook, over a model of the shared directory.     *)
(*                                                                         *)
(* A file name is a sequence of tokens ("bob_inventory.xlsx" is            *)
(* <<"bob","_","inventory",".xlsx">>), so that str.startswith is a real    *)
(* prefix test.  A file is a record: content (the set of committed         *)
(* rows it holds), mtime,     locked (held open by a spreadsheet editor), *)
(* denied (os.path.getmtime raises PermissionError).                       *)
(***************************************************************************)
EXTENDS Integers, Sequences, FiniteSets, TLC

VARIABLES files, excel_file, username, running, clock, last,
          settings_file, last_settings_mtime

vars == <<files, excel_file, username, running, clock, last,
          settings_file, last_settings_mtime>>

\* ---------------------------------------------------------------- bounds
MaxClock == 3

Procs == {1, 2}

\* the process whose handlers are followed step by step / the other users'
\* processes, followed one whole session at a time
Active == {1}

Others == {2}

Bob == <<"bob">>
Alice == <<"alice">>

NoFile == <<>>

\* ------------------------------------------------------------ file names
\* time.strftime("%Y%m%d_%H%M%S") at the moment of the call.  Two preparations
\* are taken to fall in different seconds, so the stamp is that of the clock.
Stamp(t) == <<"t1", "t2", "t3", "t4", "t5", "t6", "t7", "t8">>[t]

Canonical(u) == u \o <<"_", "inventory", ".xlsx">>

InventoryCopy(u, t) == u \o <<"_", "inventory", "_", Stamp(t), ".xlsx">>

CurrentCopy(u, t) == u \o <<"_", "current", "_", Stamp(t), ".xlsx">>

TempOf(n) == <<"~", "$">> \o n

StartsWith(n, p) == Len(n) >= Len(p) /\ SubSeq(n, 1, Len(p)) = p

IsTemp(n) == StartsWith(n, <<"~">>)

OwnedPrefix(u) == u \o <<"_">>

InventoryPrefix(u) == u \o <<"_", "inventory", "_">>

CurrentPrefix(u) == u \o <<"_", "current", "_">>

IsWorkingCopy(n, u) == StartsWith(n, InventoryPrefix(u)) \/ StartsWith(n, CurrentPrefix(u))

\* ------------------------------------------------------- file system ops
Range(s) == {s[i] : i \in 1..Len(s)}

Exists(fs, n) == n \in DOMAIN fs /\ ~fs[n].denied

Writable(fs, n) == n \in DOMAIN fs /\ ~fs[n].locked /\ ~fs[n].denied

Restrict(fs, S) == [m \in S |-> fs[m]]

Remove(fs, n) == IF Writable(fs, n) THEN Restrict(fs, DOMAIN fs \ {n}) ELSE fs

RemoveAll(fs, S) == Restrict(fs, {m \in DOMAIN fs : ~(m \in S /\ Writable(fs, m))})

RenameOk(fs, a, b) == Writable(fs, a) /\ b \notin DOMAIN fs

Rename(fs, a, b) == [m \in (DOMAIN fs \ {a}) \cup {b} |-> IF m = b THEN fs[a] ELSE fs[m]]

CopyOk(fs, a, b) == /\ a \in DOMAIN fs
                    /\ ~fs[a].denied
                    /\ a # b
                    /\ b \in DOMAIN fs => Writable(fs, b)

\* The content of a workbook is the set of its rows: the header row and one
\* data row for each committed mutation.
\* mutant: two columns of the header exchanged
headers_Reordered == <<"Model", "Serial", "Name", "Status", "Checked Out By", "Checked Out At",
                       "Serialized Date", "WIP Location">>

headers == <<"Serial", "Model", "Name", "Status", "Checked Out By", "Checked Out At",
             "Serialized Date", "WIP Location">>

\* the data row written by the mutation committed at time t
Row(t) == <<"row", <<"r0", "r1", "r2", "r3", "r4", "r5", "r6", "r7", "r8">>[t + 1]>>

NewFile(c, t) == [content |-> c, mtime |-> t, locked |-> FALSE, denied |-> FALSE]

Copy(fs, a, b) == [m \in DOMAIN fs \cup {b} |->
                     IF m = b THEN NewFile(fs[a].content, fs[a].mtime) ELSE fs[m]]

Save(fs, n, c, t) == [m \in DOMAIN fs \cup {n} |-> IF m = n THEN NewFile(c, t) ELSE fs[m]]

\* mutant: the write-probe leaves the modification time as it was
Probe_KeepsMtime(fs, n, t) == fs

\* load_workbook(n); save(n): rewrites the file, same content, new mtime
Probe(fs, n, t) == Save(fs, n, fs[n].content, t)

\* ------------------------------------------------------ directory listing
\* glob order is unspecified.  A listing is observed only through first-max
\* selection (the deletions are independent of each other), so what matters
\* is which of several entries of equal mtime comes first: the listings
\* enumerated are a fixed order, and that order with any entry that shares
\* its mtime with another moved to the front.
RECURSIVE SeqOf(_)
SeqOf(S) == IF S = {} THEN <<>>
            ELSE LET x == CHOOSE y \in S : TRUE IN <<x>> \o SeqOf(S \ {x})

Tied(fs) == {y \in DOMAIN fs : \E z \in DOMAIN fs \ {y} : fs[z].mtime = fs[y].mtime}

Glob(fs) == {SeqOf(DOMAIN fs)} \cup {<<x>> \o SeqOf(DOMAIN fs \ {x}) : x \in Tied(fs)}

NotTemp(n) == ~IsTemp(n)

\* mutant: the startswith('~') filter dropped
FilterTemp_None(listing) == listing

FilterTemp(listing) == SelectSeq(listing, NotTemp)

MaxMtime(fs, S) == CHOOSE t \in {fs[n].mtime : n \in S} : \A n \in S : fs[n].mtime <= t

\* the first entry of the sequence that has the greatest mtime
FirstNewest(fs, s) ==
    LET mx == MaxMtime(fs, Range(s))
        i == CHOOSE k \in 1..Len(s) : /\ fs[s[k]].mtime = mx
                                      /\ \A j \in 1..(k - 1) : fs[s[j]].mtime # mx
    IN s[i]

\* ------------------------------------------------- get_newest_excel_file
\* mutant: the try/except around os.path.getmtime dropped, no file skipped
Accessible_All(fs, s) == s

Accessible(fs, s) == SelectSeq(s, LAMBDA f : ~fs[f].denied)

get_newest_excel_file(fs, listing) ==
    LET accessible_files == Accessible(fs, FilterTemp(listing))
    IN IF accessible_files = <<>> THEN NoFile ELSE FirstNewest(fs, accessible_files)

\* ------------------------------------------- manage_excel_files_on_save
Result(ok, fs, ef, branch, newest, copy) ==
    [ok |-> ok, fs |-> fs, excel_file |-> ef, branch |-> branch, newest |-> newest, copy |-> copy]

IsOwned(n, u) == StartsWith(n, OwnedPrefix(u))

\* remove the file at the canonical/current path if present, then rename onto it
RenameToCurrent(fs, cur, newest) ==
    IF newest = cur THEN [fs |-> fs, newest |-> newest]
    ELSE LET fs1 == IF Exists(fs, cur) THEN Remove(fs, cur) ELSE fs
         IN IF RenameOk(fs1, newest, cur)
            THEN [fs |-> Rename(fs1, newest, cur), newest |-> cur]
            ELSE [fs |-> fs1, newest |-> newest]

\* mutant: the cleanup loop without its startswith(f"{username}_") test
DeleteOtherOwned_AnyOwner(u, fs, excel_files, keep) ==
    RemoveAll(fs, {f \in Range(excel_files) : f # keep})

\* mutant: the cleanup loop removed
DeleteOtherOwned_Nothing(u, fs, excel_files, keep) == fs

DeleteOtherOwned(u, fs, excel_files, keep) ==
    RemoveAll(fs, {f \in Range(excel_files) : f # keep /\ IsOwned(f, u)})

CreateNew(fs, cur, now) ==
    Result(TRUE, Save(fs, cur, {headers}, now), cur, "create", NoFile, NoFile)

WritableBranch(fs, cur, orig, newest, now) ==
    LET r == RenameToCurrent(Probe(fs, newest, now), cur, newest)
    IN Result(TRUE, r.fs, r.newest, "owned", orig, NoFile)

\* mutant: self.excel_file = newest_file instead of the working copy
LockedBranch_AdoptLocked(u, fs, excel_files, cur, orig, newest, now) ==
    LET timestamped_copy == InventoryCopy(u, now)
    IN Result(TRUE, Probe(Copy(fs, newest, timestamped_copy), timestamped_copy, now),
              newest, "locked", orig, timestamped_copy)

LockedBranch(u, fs, excel_files, cur, orig, newest, now) ==
    LET timestamped_copy == InventoryCopy(u, now)
    IN IF ~CopyOk(fs, newest, timestamped_copy)
       THEN Result(FALSE, fs, cur, "locked", orig, NoFile)
       ELSE LET fs1 == Copy(fs, newest, timestamped_copy)
                old == {f \in Range(excel_files) :
                          /\ f # timestamped_copy
                          /\ f # newest
                          /\ StartsWith(f, InventoryPrefix(u))}
            IN Result(TRUE, RemoveAll(Probe(fs1, timestamped_copy, now), old),
                      timestamped_copy, "locked", orig, timestamped_copy)

\* mutant: the write-probe dropped, the renamed file adopted as it is
OwnedBranch_NoProbe(u, fs, excel_files, cur, newest0, now) ==
    LET r == RenameToCurrent(fs, cur, newest0)
    IN Result(TRUE, DeleteOtherOwned(u, r.fs, excel_files, r.newest), r.newest,
              "owned", newest0, NoFile)

\* mutant: the cleanup spares current_path instead of the newest file
OwnedBranch_KeepCurrent(u, fs, excel_files, cur, newest0, now) ==
    LET r == RenameToCurrent(fs, cur, newest0)
        fs1 == DeleteOtherOwned(u, r.fs, excel_files, cur)
    IN IF Writable(fs1, r.newest)
       THEN WritableBranch(fs1, cur, newest0, r.newest, now)
       ELSE LockedBranch(u, fs1, excel_files, cur, newest0, r.newest, now)

OwnedBranch(u, fs, excel_files, cur, newest0, now) ==
    LET r == RenameToCurrent(fs, cur, newest0)
        fs1 == DeleteOtherOwned(u, r.fs, excel_files, r.newest)
    IN IF Writable(fs1, r.newest)
       THEN WritableBranch(fs1, cur, newest0, r.newest, now)
       ELSE LockedBranch(u, fs1, excel_files, cur, newest0, r.newest, now)

\* mutant: self.excel_file is set to the working copy before it is made
NotOwnedBranch_AdoptFirst(u, fs, excel_files, cur, newest, now) ==
    LET timestamped_copy == CurrentCopy(u, now)
    IN IF ~CopyOk(fs, newest, timestamped_copy)
       THEN Result(FALSE, fs, timestamped_copy, "other", newest, NoFile)
       ELSE LET fs1 == Probe(Copy(fs, newest, timestamped_copy), timestamped_copy, now)
            IN Result(TRUE, DeleteOtherOwned(u, fs1, excel_files, timestamped_copy),
                      timestamped_copy, "other", newest, timestamped_copy)

NotOwnedBranch(u, fs, excel_files, cur, newest, now) ==
    LET timestamped_copy == CurrentCopy(u, now)
    IN IF ~CopyOk(fs, newest, timestamped_copy)
       THEN Result(FALSE, fs, cur, "other", newest, NoFile)
       ELSE LET fs1 == Probe(Copy(fs, newest, timestamped_copy), timestamped_copy, now)
            IN Result(TRUE, DeleteOtherOwned(u, fs1, excel_files, timestamped_copy),
                      timestamped_copy, "other", newest, timestamped_copy)

\* mutant: the file adopted earlier is kept without looking for a newer one
manage_KeepsAdopted(u, fs, cur, listing, now) ==
    LET excel_files == FilterTemp(listing)
    IN IF excel_files = <<>> THEN CreateNew(fs, cur, now)
       ELSE IF \E f \in Range(excel_files) : fs[f].denied
       THEN Result(FALSE, fs, cur, "denied", NoFile, NoFile)
       ELSE LET newest_file == IF Writable(fs, cur) THEN cur ELSE FirstNewest(fs, excel_files)
            IN IF IsOwned(newest_file, u)
               THEN WritableBranch(fs, cur, newest_file, newest_file, now)
               ELSE NotOwnedBranch(u, fs, excel_files, cur, newest_file, now)

manage_excel_files_on_save(u, fs, cur, listing, now) ==
    LET excel_files == FilterTemp(listing)
    IN IF excel_files = <<>> THEN CreateNew(fs, cur, now)
       ELSE IF \E f \in Range(excel_files) : fs[f].denied
       THEN Result(FALSE, fs, cur, "denied", NoFile, NoFile)
       ELSE LET newest_file == FirstNewest(fs, excel_files)
            IN IF IsOwned(newest_file, u)
               THEN OwnedBranch(u, fs, excel_files, cur, newest_file, now)
               ELSE NotOwnedBranch(u, fs, excel_files, cur, newest_file, now)

\* ---------------------------------------- prepare_excel_file_on_startup
\* mutant: an existing per-user file is kept instead of being overwritten
CopyToCurrent_KeepStale(u, fs, excel_files, cur, newest) ==
    IF cur \in DOMAIN fs
    THEN Result(TRUE, DeleteOtherOwned(u, fs, excel_files, cur), cur, "copied", newest, cur)
    ELSE Result(TRUE, DeleteOtherOwned(u, Copy(fs, newest, cur), excel_files, cur),
                cur, "copied", newest, cur)

\* mutant: after a failed copy the per-user path is adopted all the same
CopyToCurrent_NoFallback(u, fs, excel_files, cur, newest) ==
    LET fs1 == IF Exists(fs, cur) THEN Remove(fs, cur) ELSE fs
    IN IF ~CopyOk(fs1, newest, cur)
       THEN Result(TRUE, fs1, cur, "fallback", newest, NoFile)
       ELSE Result(TRUE, DeleteOtherOwned(u, Copy(fs1, newest, cur), excel_files, cur),
                   cur, "copied", newest, cur)

CopyToCurrent(u, fs, excel_files, cur, newest) ==
    LET fs1 == IF Exists(fs, cur) THEN Remove(fs, cur) ELSE fs
    IN IF ~CopyOk(fs1, newest, cur)
       THEN Result(TRUE, fs1, newest, "fallback", newest, NoFile)
       ELSE Result(TRUE, DeleteOtherOwned(u, Copy(fs1, newest, cur), excel_files, cur),
                   cur, "copied", newest, cur)

\* mutant: with no candidate, startup creates the per-user workbook at once
prepare_CreatesWorkbook(u, fs, cur, listing) ==
    LET excel_files == FilterTemp(listing)
        excel_files_with_time == Accessible(fs, excel_files)
    IN IF excel_files = <<>>
       THEN Result(TRUE, Save(fs, cur, {}, 0), cur, "empty", NoFile, NoFile)
       ELSE IF excel_files_with_time = <<>>
       THEN Result(TRUE, fs, cur, "noaccess", NoFile, NoFile)
       ELSE LET newest_file == FirstNewest(fs, excel_files_with_time)
            IN IF newest_file = cur
               THEN Result(TRUE, DeleteOtherOwned(u, fs, excel_files, cur),
                           cur, "same", newest_file, NoFile)
               ELSE CopyToCurrent(u, fs, excel_files, cur, newest_file)

prepare_excel_file_on_startup(u, fs, cur, listing) ==
    LET excel_files == FilterTemp(listing)
        excel_files_with_time == Accessible(fs, excel_files)
    IN IF excel_files = <<>> THEN Result(TRUE, fs, cur, "empty", NoFile, NoFile)
       ELSE IF excel_files_with_time = <<>>
       THEN Result(TRUE, fs, cur, "noaccess", NoFile, NoFile)
       ELSE LET newest_file == FirstNewest(fs, excel_files_with_time)
            IN IF newest_file = cur
               THEN Result(TRUE, DeleteOtherOwned(u, fs, excel_files, cur),
                           cur, "same", newest_file, NoFile)
               ELSE CopyToCurrent(u, fs, excel_files, cur, newest_file)

\* ------------------------------------------------------------- handlers
\* load_workbook(self.excel_file) ... wb.save(self.excel_file), inside try/except
WriteWorkbook(fs, n, mark, now) ==
    IF Writable(fs, n) THEN Save(fs, n, fs[n].content \cup {Row(mark)}, now) ELSE fs

Wrote(fs, n) == IF Writable(fs, n) THEN n ELSE NoFile

\* the record of the handler that ran last: its return value, the branch it
\* took, the directory and self.excel_file it started from, the workbook it
\* wrote and the newest workbook its closing load_data() read
Last(op, p, r, wrote, loaded) ==
    [op |-> op, p |-> p, pre |-> files, cur |-> excel_file[p], ok |-> r.ok,
     branch |-> r.branch, newest |-> r.newest, copy |-> r.copy, wrote |-> wrote,
     loaded |-> loaded]

NoResult == Result(TRUE, <<>>, NoFile, "none", NoFile, NoFile)

Idle == [op |-> "env", p |-> 0, pre |-> <<>>, cur |-> NoFile, ok |-> TRUE, branch |-> "none",
         newest |-> NoFile, copy |-> NoFile, wrote |-> NoFile, loaded |-> NoFile]

\* the shared directory before the active user's first session: empty, or as
\* another user's earlier session left it (that user's canonical workbook)
EmptyDirectory == [n \in {} |-> NewFile({}, 0)]

InitialDirectories ==
    {EmptyDirectory} \cup {[n \in {Canonical(username[p])} |-> NewFile({headers, Row(0)}, 0)] : p \in Others}

Init == /\ username = (1 :> Bob @@ 2 :> Alice)
        /\ files \in InitialDirectories
        /\ excel_file = [p \in Procs |-> NoFile]
        /\ running = [p \in Procs |-> FALSE]
        /\ clock = 1
        /\ last = Idle
        /\ settings_file = [p \in Procs |-> NoFile]
        /\ last_settings_mtime = [p \in Procs |-> -1]

\* the program is launched (again): __init__ sets self.excel_file to
\* get_excel_file(), runs prepare_excel_file_on_startup() and load_data()
Startup(p) ==
    /\ \E listing \in Glob(files) :
         \E r \in {prepare_excel_file_on_startup(username[p], files,
                                                Canonical(username[p]), listing)} :
            /\ files' = r.fs
            /\ excel_file' = [excel_file EXCEPT ![p] = r.excel_file]
            /\ \E l2 \in Glob(r.fs) :
                 last' = [Last("startup", p, r, NoFile, get_newest_excel_file(r.fs, l2))
                            EXCEPT !.cur = Canonical(username[p])]
    /\ running' = [running EXCEPT ![p] = TRUE]
    /\ UNCHANGED <<username, settings_file, last_settings_mtime, clock>>

\* a mutating handler whose input validation rejects the request after
\* manage_excel_files_on_save has run
PreSaveOnly(p) ==
    /\ running[p]
    /\ clock < MaxClock
    /\ \E listing \in Glob(files) :
         \E r \in {manage_excel_files_on_save(username[p], files, excel_file[p],
                                             listing, clock)} :
            /\ files' = r.fs
            /\ excel_file' = [excel_file EXCEPT ![p] = r.excel_file]
            /\ last' = Last("presave", p, r, NoFile, NoFile)
    /\ clock' = clock + 1
    /\ UNCHANGED <<username, settings_file, last_settings_mtime, running>>

\* checkout / check-in / discontinue / add fixture / delete serial
\* mutant: the handler goes on to write although the preparation failed
MutateAfter_IgnoreFailure(r, now) == WriteWorkbook(r.fs, r.excel_file, now, now)

MutateAfter(r, now) == IF r.ok THEN WriteWorkbook(r.fs, r.excel_file, now, now) ELSE r.fs

Commit(p) ==
    /\ running[p]
    /\ clock < MaxClock
    /\ \E listing \in Glob(files) :
         \E r \in {manage_excel_files_on_save(username[p], files, excel_file[p],
                                             listing, clock)} :
            /\ files' = MutateAfter(r, clock)
            /\ excel_file' = [excel_file EXCEPT ![p] = r.excel_file]
            /\ \E l2 \in Glob(files') :
                 last' = Last("commit", p, r, IF files' = r.fs THEN NoFile ELSE r.excel_file,
                              IF r.ok THEN get_newest_excel_file(files', l2) ELSE NoFile)
    /\ clock' = clock + 1
    /\ UNCHANGED <<username, settings_file, last_settings_mtime, running>>

\* save_settings: save_images_to_excel writes self.excel_file directly
SettingsSave(p) ==
    /\ running[p]
    /\ clock < MaxClock
    /\ files' = WriteWorkbook(files, excel_file[p], clock, clock)
    /\ \E l2 \in Glob(files') :
         last' = Last("settings", p, [NoResult EXCEPT !.excel_file = excel_file[p]],
                      Wrote(files, excel_file[p]), get_newest_excel_file(files', l2))
    /\ clock' = clock + 1
    /\ UNCHANGED <<excel_file, username, settings_file, last_settings_mtime, running>>

\* ---------------------------------------------------------- environment
\* another user's whole session, run to completion: the program starts
\* (startup preparation), one fixture is added (pre-save preparation and the
\* write), the program is closed
OtherSession(p) ==
    /\ ~running[p]
    /\ clock < MaxClock
    /\ \E l1 \in Glob(files) :
         \E r1 \in {prepare_excel_file_on_startup(username[p], files,
                                                 Canonical(username[p]), l1)} :
            \E l2 \in Glob(r1.fs) :
              \E r2 \in {manage_excel_files_on_save(username[p], r1.fs, r1.excel_file,
                                                   l2, clock)} :
                 files' = MutateAfter(r2, clock)
    /\ clock' = clock + 1
    /\ last' = Idle
    /\ UNCHANGED <<excel_file, username, settings_file, last_settings_mtime, running>>

Locked(fs) == {n \in DOMAIN fs : ~IsTemp(n) /\ fs[n].locked}

Denied(fs) == {n \in DOMAIN fs : fs[n].denied}

\* the spreadsheet editor (one instance, one workbook at a time) opens the
\* file: exclusive lock plus its ~$ owner file, which the editor keeps newer
\* than every workbook in the directory
Lock(n) ==
    /\ n \in DOMAIN files
    /\ ~IsTemp(n)
    /\ Writable(files, n)
    /\ Locked(files) = {}
    /\ files' = [m \in DOMAIN files \cup {TempOf(n)} |->
                   IF m = n THEN [files[n] EXCEPT !.locked = TRUE]
                   ELSE IF m = TempOf(n) THEN [NewFile({}, MaxClock) EXCEPT !.locked = TRUE]
                   ELSE files[m]]
    /\ last' = Idle
    /\ UNCHANGED <<excel_file, username, settings_file, last_settings_mtime, running, clock>>

Unlock(n) ==
    /\ n \in Locked(files)
    /\ files' = [m \in DOMAIN files \ {TempOf(n)} |->
                   IF m = n THEN [files[n] EXCEPT !.locked = FALSE] ELSE files[m]]
    /\ last' = Idle
    /\ UNCHANGED <<excel_file, username, settings_file, last_settings_mtime, running, clock>>

\* the share's administrator withdraws / restores the permissions on one file
Deny(n) ==
    /\ n \in DOMAIN files
    /\ Writable(files, n)
    /\ Denied(files) = {}
    /\ files' = [files EXCEPT ![n].denied = TRUE]
    /\ last' = Idle
    /\ UNCHANGED <<excel_file, username, settings_file, last_settings_mtime, running, clock>>

Allow(n) ==
    /\ n \in Denied(files)
    /\ files' = [files EXCEPT ![n].denied = FALSE]
    /\ last' = Idle
    /\ UNCHANGED <<excel_file, username, settings_file, last_settings_mtime, running, clock>>

Next == \/ \E p \in Active : Startup(p)
        \/ \E p \in Active : PreSaveOnly(p)
        \/ \E p \in Active : Commit(p)
        \/ \E p \in Active : SettingsSave(p)
        \/ \E p \in Others : OtherSession(p)
        \/ \E n \in DOMAIN files : Lock(n)
        \/ \E n \in DOMAIN files : Unlock(n)
        \/ \E n \in DOMAIN files : Deny(n)
        \/ \E n \in DOMAIN files : Allow(n)

Spec == Init /\ [][Next]_vars

TypeOK == /\ clock \in 1..MaxClock
          /\ \A n \in DOMAIN files : files[n].mtime \in 0..MaxClock


\* ------------------------------------------- one operation on a directory
\* The three operations that pick the newest workbook, applied once to a
\* directory as the users of the share may have left it, under every order
\* in which glob may list it.
BobJr == <<"bob", "_", "jr">>

DirSize == 3

Mtimes == 0..2

DirNames == {Canonical(Bob), InventoryCopy(Bob, 1), Canonical(Alice), Canonical(BobJr),
             TempOf(Canonical(Bob)), <<"~">> \o Canonical(Bob)}

\* at most one file of a directory has its permissions withdrawn
DirAttributes ==
    {a \in UNION {[S -> [mtime : Mtimes, denied : BOOLEAN]] :
                    S \in {T \in SUBSET DirNames : Cardinality(T) <= DirSize}} :
        Cardinality({n \in DOMAIN a : a[n].denied}) <= 1}

\* a "~" file is not a workbook: it holds no rows
Directories ==
    {[n \in DOMAIN a |-> [content |-> IF IsTemp(n) THEN {} ELSE {headers, Row(0)},
                          mtime |-> a[n].mtime, locked |-> FALSE, denied |-> a[n].denied]] :
        a \in DirAttributes}

Listings(fs) ==
    {l \in [1..Cardinality(DOMAIN fs) -> DOMAIN fs] :
        \A i, j \in 1..Cardinality(DOMAIN fs) : l[i] = l[j] => i = j}

InitDir == /\ username = (1 :> Bob @@ 2 :> Alice)
           /\ files \in Directories
           /\ excel_file = [p \in Procs |-> Canonical(username[p])]
           /\ running = [p \in Procs |-> TRUE]
           /\ clock = MaxClock
           /\ last = Idle
           /\ settings_file = [p \in Procs |-> NoFile]
           /\ last_settings_mtime = [p \in Procs |-> -1]

\* load_data / auto_refresh / lookup_fixture: get_newest_excel_file()
Discover(p) ==
    /\ last = Idle
    /\ \E listing \in Listings(files) :
         last' = [listing |-> listing] @@
                 Last("discover", p, [NoResult EXCEPT !.excel_file = excel_file[p]],
                      NoFile, get_newest_excel_file(files, listing))
    /\ UNCHANGED <<files, excel_file, username, settings_file, last_settings_mtime,
                   running, clock>>

PrepareOnce(p) ==
    /\ last = Idle
    /\ \E listing \in Listings(files) :
         \E r \in {prepare_excel_file_on_startup(username[p], files,
                                                Canonical(username[p]), listing)} :
            /\ files' = r.fs
            /\ excel_file' = [excel_file EXCEPT ![p] = r.excel_file]
            /\ last' = [listing |-> listing] @@ Last("startup", p, r, NoFile, NoFile)
    /\ UNCHANGED <<username, settings_file, last_settings_mtime, running, clock>>

ManageOnce(p) ==
    /\ last = Idle
    /\ \E listing \in Listings(files) :
         \E r \in {manage_excel_files_on_save(username[p], files, excel_file[p],
                                             listing, clock)} :
            /\ files' = r.fs
            /\ excel_file' = [excel_file EXCEPT ![p] = r.excel_file]
            /\ last' = [listing |-> listing] @@ Last("presave", p, r, NoFile, NoFile)
    /\ UNCHANGED <<username, settings_file, last_settings_mtime, running, clock>>

NextDir == \/ \E p \in Active : Discover(p)
           \/ \E p \in Active : PrepareOnce(p)
           \/ \E p \in Active : ManageOnce(p)

SpecDir == InitDir /\ [][NextDir]_vars

\* ------------------------------------------- pre-save call and its return
\* manage_excel_files_on_save as a call that is entered (the directory is
\* listed, the outcome is determined by what it holds) and then returns.
\* What the code does when the write test finds the file locked: the except
\* branch goes on to make the timestamped copy.
\* mutant: the write test is tried again until the file is released
OnLocked_Retry == "retry"

OnLocked == "copy"

CallPreSave(p) ==
    /\ running[p]
    /\ clock < MaxClock
    /\ last.op # "call"
    /\ \E listing \in Glob(files) :
         \E r \in {manage_excel_files_on_save(username[p], files, excel_file[p],
                                             listing, clock)} :
            last' = [result |-> r] @@ Last("call", p, r, NoFile, NoFile)
    /\ UNCHANGED <<files, excel_file, username, settings_file, last_settings_mtime,
                   running, clock>>

ReturnPreSave(p) ==
    /\ last.op = "call"
    /\ last.p = p
    /\ (OnLocked = "retry") => last.branch # "locked"
    /\ files' = last.result.fs
    /\ excel_file' = [excel_file EXCEPT ![p] = last.result.excel_file]
    /\ last' = [k \in DOMAIN Idle |-> IF k = "op" THEN "presave" ELSE last[k]]
    /\ clock' = clock + 1
    /\ UNCHANGED <<username, settings_file, last_settings_mtime, running>>

\* nothing else happens in the directory between the call and its return
NextCall == \/ \E p \in Active : CallPreSave(p)
            \/ \E p \in Active : ReturnPreSave(p)
            \/ last.op # "call" /\ \E p \in Active : Startup(p)
            \/ last.op # "call" /\ \E p \in Others : OtherSession(p)
            \/ last.op # "call" /\ \E n \in DOMAIN files : Lock(n)
            \/ last.op # "call" /\ \E n \in DOMAIN files : Unlock(n)
            \/ last.op # "call" /\ \E n \in DOMAIN files : Deny(n)
            \/ last.op # "call" /\ \E n \in DOMAIN files : Allow(n)

\* a call that was entered runs on to its return
SpecCall == Init /\ [][NextCall]_vars /\ WF_vars(\E p \in Active : ReturnPreSave(p))

\* ----------------------------------------------------------- settings files
\* The *.json settings files of the shared directory, with the handlers that
\* read and write them.  The content of a settings file is the set of its
\* entries; a file that json.load cannot parse holds the entry Corrupted.
SettingsName(u) == u \o <<"_", "settings", ".json">>

BackupOf(n) == n \o <<".backup">>

IsJson(n) == Len(n) >= 1 /\ n[Len(n)] = ".json"

JsonFiles(listing) == SelectSeq(listing, IsJson)

Corrupted == <<"corrupted">>

default_data == {}

SavedSettings == {<<"columns">>, <<"filters">>}

\* mtime of every file is beyond the initial value 0 of _last_settings_mtime
NeverLoaded == -1

get_most_recent_settings_file(u, fs, listing) ==
    LET settings_files == JsonFiles(listing)
        accessible_files == Accessible(fs, settings_files)
    IN IF accessible_files = <<>> THEN SettingsName(u) ELSE FirstNewest(fs, accessible_files)

get_newest_settings_file(fs, listing) ==
    LET accessible_files == Accessible(fs, JsonFiles(listing))
    IN IF accessible_files = <<>> THEN NoFile ELSE FirstNewest(fs, accessible_files)

\* open(self.settings_file, "w"); json.dump(default_data), inside try/except
WriteDefaults(fs, sf, now) ==
    IF sf \in DOMAIN fs /\ ~Writable(fs, sf) THEN fs ELSE Save(fs, sf, default_data, now)

load_settings(fs, sf, now) ==
    IF Exists(fs, sf)
    THEN IF Corrupted \in fs[sf].content
         THEN LET backup_file == BackupOf(sf)
                  fs1 == IF CopyOk(fs, sf, backup_file) THEN Copy(fs, sf, backup_file) ELSE fs
              IN WriteDefaults(fs1, sf, now)
         ELSE fs
    ELSE IF sf \in DOMAIN fs THEN fs
    ELSE WriteDefaults(fs, sf, now)

\* settings files left by earlier sessions: of any subset of the users, each
\* either as saved by that user or unparsable
SettingsDirectories ==
    UNION {[{SettingsName(u) : u \in us} ->
               {NewFile(c, 0) : c \in {SavedSettings, {Corrupted}}}] : us \in SUBSET {Bob, Alice}}

InitSettings == /\ username = (1 :> Bob @@ 2 :> Alice)
                /\ files \in SettingsDirectories
                /\ excel_file = [p \in Procs |-> NoFile]
                /\ running = [p \in Procs |-> FALSE]
                /\ clock = 1
                /\ last = Idle
                /\ settings_file = [p \in Procs |-> NoFile]
                /\ last_settings_mtime = [p \in Procs |-> NeverLoaded]

\* __init__: get_most_recent_settings_file(), load_settings(); init_ui resets
\* _last_settings_mtime
LoadSettingsOnStartup(p) ==
    /\ clock < MaxClock
    /\ \E listing \in Glob(files) :
         \E sf \in {get_most_recent_settings_file(username[p], files, listing)} :
            /\ settings_file' = [settings_file EXCEPT ![p] = sf]
            /\ files' = load_settings(files, sf, clock)
            /\ last' = [Last("load_settings", p, NoResult, NoFile, NoFile) EXCEPT !.newest = sf]
    /\ last_settings_mtime' = [last_settings_mtime EXCEPT ![p] = NeverLoaded]
    /\ running' = [running EXCEPT ![p] = TRUE]
    /\ clock' = clock + 1
    /\ UNCHANGED <<excel_file, username>>

auto_refresh(p) ==
    /\ running[p]
    /\ clock < MaxClock
    /\ \E listing \in Glob(files) :
         \E newest_settings \in {get_newest_settings_file(files, listing)} :
            /\ newest_settings # NoFile
            /\ Exists(files, newest_settings)
            /\ files[newest_settings].mtime > last_settings_mtime[p]
            /\ last_settings_mtime' =
                   [last_settings_mtime EXCEPT ![p] = files[newest_settings].mtime]
            /\ settings_file' = [settings_file EXCEPT ![p] = newest_settings]
            /\ files' = load_settings(files, newest_settings, clock)
            /\ last' = [Last("auto_refresh", p, NoResult, NoFile, NoFile)
                          EXCEPT !.newest = newest_settings]
    /\ clock' = clock + 1
    /\ UNCHANGED <<excel_file, username, running>>

\* the Save button of the settings dialog, as far as the settings file goes
save_settings(p) ==
    /\ running[p]
    /\ clock < MaxClock
    /\ LET user_settings_path == SettingsName(username[p])
       IN IF user_settings_path \in DOMAIN files /\ ~Writable(files, user_settings_path)
          THEN UNCHANGED <<files, settings_file>>
          ELSE /\ files' = Save(files, user_settings_path, SavedSettings, clock)
               /\ settings_file' = [settings_file EXCEPT ![p] = user_settings_path]
    /\ last' = [Last("save_settings", p, NoResult, NoFile, NoFile)
                  EXCEPT !.newest = SettingsName(username[p])]
    /\ clock' = clock + 1
    /\ UNCHANGED <<excel_file, username, running, last_settings_mtime>>

\* another user saves the settings dialog
OtherSaveSettings(q) ==
    /\ clock < MaxClock
    /\ Writable(files, SettingsName(username[q])) \/ SettingsName(username[q]) \notin DOMAIN files
    /\ files' = Save(files, SettingsName(username[q]), SavedSettings, clock)
    /\ clock' = clock + 1
    /\ last' = Idle
    /\ UNCHANGED <<excel_file, username, running, settings_file, last_settings_mtime>>

\* a settings file is left unparsable (a write that was cut short)
CorruptSettings(n) ==
    /\ clock < MaxClock
    /\ IsJson(n)
    /\ Writable(files, n)
    /\ Corrupted \notin files[n].content
    /\ files' = Save(files, n, {Corrupted}, clock)
    /\ clock' = clock + 1
    /\ last' = Idle
    /\ UNCHANGED <<excel_file, username, running, settings_file, last_settings_mtime>>

NextSettings == \/ \E p \in Active : LoadSettingsOnStartup(p)
                \/ \E p \in Active : auto_refresh(p)
                \/ \E p \in Active : save_settings(p)
                \/ \E q \in Others : OtherSaveSettings(q)
                \/ \E n \in DOMAIN files : CorruptSettings(n)
                \/ \E n \in DOMAIN files : Deny(n)
                \/ \E n \in DOMAIN files : Allow(n)

SpecSettings == InitSettings /\ [][NextSettings]_vars

\* ------------------------------------------------------------ fixture rows
\* The rows of the workbook and the five handlers that edit them.  A data row
\* is <<row number, Serial Number, Status, WIP Location>>; row 1 is headers.
\* The other columns (model, name, person, dates) take no part in a decision.
MaxOps == 6

Serials == {"F01", "F02"}

\* what the user may have typed in the serial box (stripped, upper-cased):
\* nothing, a string the pattern rejects, or a well-formed serial
SerialInputs == {"", "S-1"} \cup Serials

\* re.match(r'^(FX\d{5}|F\d{2,6})(-SLC)?$', serial)
MatchesSerialPattern(serial) == serial \in Serials

Persons == {"", "ann"}

WipLocations == {"", "Line 1"}

registered_types == {"Clamp"}

FixtureTypes == {"", "Clamp", "Vise"}

DataRows(sheet) == sheet \ {headers}

max_row(sheet) ==
    IF DataRows(sheet) = {} THEN 1
    ELSE CHOOSE n \in {r[1] : r \in DataRows(sheet)} : \A r \in DataRows(sheet) : r[1] <= n

SerialsOf(sheet) == {r[2] : r \in DataRows(sheet)}

Matching(sheet, serial) == {r \in DataRows(sheet) : r[2] = serial}

\* the loop over the rows stops at the first row that carries the serial
FirstMatch(sheet, serial) ==
    CHOOSE r \in Matching(sheet, serial) : \A q \in Matching(sheet, serial) : r[1] <= q[1]

StatusOf(sheet, serial) ==
    IF Matching(sheet, serial) = {} THEN "absent" ELSE FirstMatch(sheet, serial)[3]

SetRow(sheet, row, status, wip) ==
    (sheet \ {row}) \cup {<<row[1], row[2], status, wip>>}

\* the outcome of a handler's work on the loaded workbook: the sheet, and
\* whether wb.save was reached
Edited(sheet) == [sheet |-> sheet, saved |-> TRUE]

Rejected(sheet) == [sheet |-> sheet, saved |-> FALSE]

\* mutant: any fixture that is not already out can be checked out
CanCheckOut_NotOut(current_status) == current_status \notin {"Checked Out", "WIP"}

CanCheckOut(current_status) == current_status = "Available"

checkout_rows(sheet, in) ==
    IF in.serial = "" \/ in.person = "" THEN Rejected(sheet)
    ELSE IF ~MatchesSerialPattern(in.serial) THEN Rejected(sheet)
    ELSE LET wip_location == IF in.is_wip THEN in.wip_location ELSE ""
         IN IF in.is_wip /\ wip_location = "" THEN Rejected(sheet)
            ELSE IF Matching(sheet, in.serial) = {} THEN Edited(sheet)
            ELSE LET row == FirstMatch(sheet, in.serial)
                 IN IF ~CanCheckOut(row[3]) THEN Rejected(sheet)
                    ELSE Edited(SetRow(sheet, row, IF in.is_wip THEN "WIP" ELSE "Checked Out",
                                       wip_location))

\* mutant: check-in keeps the WIP location of the row
CheckedIn_KeepLocation(sheet, row) == SetRow(sheet, row, "Available", row[4])

CheckedIn(sheet, row) == SetRow(sheet, row, "Available", "")

checkin_rows(sheet, in) ==
    IF in.serial = "" \/ in.person = "" THEN Rejected(sheet)
    ELSE IF ~MatchesSerialPattern(in.serial) THEN Rejected(sheet)
    ELSE IF Matching(sheet, in.serial) = {} THEN Rejected(sheet)
    ELSE LET row == FirstMatch(sheet, in.serial)
         IN IF row[3] \notin {"Checked Out", "WIP"} THEN Rejected(sheet)
            ELSE Edited(CheckedIn(sheet, row))

discontinue_rows(sheet, in) ==
    IF in.serial = "" \/ in.person = "" THEN Rejected(sheet)
    ELSE IF ~MatchesSerialPattern(in.serial) THEN Rejected(sheet)
    ELSE IF ~in.confirmed THEN Rejected(sheet)
    ELSE IF Matching(sheet, in.serial) = {} THEN Rejected(sheet)
    ELSE Edited(SetRow(sheet, FirstMatch(sheet, in.serial), "Discontinued", ""))

\* mutant: the new row is appended without looking for the serial
IsDuplicate_Never(sheet, serial) == FALSE

IsDuplicate(sheet, serial) == serial \in SerialsOf(sheet)

add_rows(sheet, in) ==
    IF in.serial = "" \/ in.fixture_type = "" THEN Rejected(sheet)
    ELSE IF in.fixture_type \notin registered_types THEN Rejected(sheet)
    ELSE IF ~MatchesSerialPattern(in.serial) THEN Rejected(sheet)
    ELSE IF IsDuplicate(sheet, in.serial) THEN Rejected(sheet)
    ELSE LET next_row == max_row(sheet) + 1
         IN Edited(sheet \cup {<<next_row, in.serial, "Available", "">>})

\* ws.delete_rows(2, ws.max_row), then ws.append of every kept row in order
delete_rows(sheet, in) ==
    IF in.selected = {} THEN Rejected(sheet)
    ELSE LET rows_to_keep == {r \in DataRows(sheet) : r[2] \notin in.selected}
             Position(r) == Cardinality({q \in rows_to_keep : q[1] <= r[1]})
         IN Edited({headers} \cup {<<1 + Position(r), r[2], r[3], r[4]>> : r \in rows_to_keep})

RowsOf(op, sheet, in) ==
    CASE op = "checkout" -> checkout_rows(sheet, in)
      [] op = "checkin" -> checkin_rows(sheet, in)
      [] op = "discontinue" -> discontinue_rows(sheet, in)
      [] op = "add" -> add_rows(sheet, in)
      [] op = "delete" -> delete_rows(sheet, in)

\* a handler from its first line to its return: manage_excel_files_on_save,
\* the checks of the input, load_workbook(self.excel_file), the edit, wb.save
Handler(p, op, in) ==
    /\ running[p]
    /\ clock < MaxOps
    /\ \E listing \in Glob(files) :
         \E r \in {manage_excel_files_on_save(username[p], files, excel_file[p],
                                             listing, clock)} :
            LET loadable == r.ok /\ Writable(r.fs, r.excel_file)
                before == IF loadable THEN r.fs[r.excel_file].content ELSE {}
                res == IF loadable THEN RowsOf(op, before, in) ELSE Rejected(before)
            IN /\ files' = IF res.saved THEN Save(r.fs, r.excel_file, res.sheet, clock)
                           ELSE r.fs
               /\ excel_file' = [excel_file EXCEPT ![p] = r.excel_file]
               /\ last' = [in |-> in, loaded_rows |-> loadable, before |-> before,
                           saved |-> res.saved]
                          @@ Last(op, p, r, IF res.saved THEN r.excel_file ELSE NoFile, NoFile)
    /\ clock' = clock + 1
    /\ UNCHANGED <<username, settings_file, last_settings_mtime, running>>

checkout_fixture(p) ==
    \E serial \in SerialInputs, person \in Persons, is_wip \in BOOLEAN,
       wip_location \in WipLocations :
        Handler(p, "checkout", [serial |-> serial, person |-> person, is_wip |-> is_wip,
                                wip_location |-> wip_location])

checkin_fixture(p) ==
    \E serial \in SerialInputs, person \in Persons :
        Handler(p, "checkin", [serial |-> serial, person |-> person])

discontinue_fixture(p) ==
    \E serial \in SerialInputs, person \in Persons, confirmed \in BOOLEAN :
        Handler(p, "discontinue", [serial |-> serial, person |-> person,
                                   confirmed |-> confirmed])

add_new_fixture(p) ==
    \E serial \in SerialInputs, fixture_type \in FixtureTypes :
        Handler(p, "add", [serial |-> serial, fixture_type |-> fixture_type])

delete_selected_serial(p) ==
    \E selected \in SUBSET Serials :
        Handler(p, "delete", [selected |-> selected])

\* the user's canonical workbook holds the header row and nothing else; the
\* program is running
InitRows == /\ username = (1 :> Bob @@ 2 :> Alice)
            /\ files = [n \in {Canonical(Bob)} |-> NewFile({headers}, 0)]
            /\ excel_file = [p \in Procs |-> IF p \in Active THEN Canonical(username[p])
                                             ELSE NoFile]
            /\ running = [p \in Procs |-> p \in Active]
            /\ clock = 1
            /\ last = Idle
            /\ settings_file = [p \in Procs |-> NoFile]
            /\ last_settings_mtime = [p \in Procs |-> NeverLoaded]

NextRows == \/ \E p \in Active : checkout_fixture(p)
            \/ \E p \in Active : checkin_fixture(p)
            \/ \E p \in Active : discontinue_fixture(p)
            \/ \E p \in Active : add_new_fixture(p)
            \/ \E p \in Active : delete_selected_serial(p)
            \/ \E n \in DOMAIN files : Deny(n)
            \/ \E n \in DOMAIN files : Allow(n)

SpecRows == InitRows /\ [][NextRows]_vars

\* ------------------------------------------------ steps that fail midway
\* Startup and pre-save preparation applied once to a directory in which
\* single steps fail: a workbook is open in the spreadsheet editor (remove,
\* rename and the write-probe fail), a file's permissions are withdrawn (the
\* modification-time read fails), or the name of the working copy the call is
\* about to create is already taken by such a file (the copy fails).
FaultNames == {Canonical(Bob), InventoryCopy(Bob, 1), Canonical(Alice),
               InventoryCopy(Bob, MaxClock), CurrentCopy(Bob, MaxClock)}

\* at most one file of a directory is locked or has its permissions withdrawn
FaultAttributes ==
    {a \in UNION {[S -> [mtime : Mtimes, state : {"free", "locked", "denied"}]] :
                    S \in {T \in SUBSET FaultNames : Cardinality(T) <= DirSize}} :
        Cardinality({n \in DOMAIN a : a[n].state # "free"}) <= 1}

\* every workbook holds the rows committed up to its modification time
FaultDirectories ==
    {[n \in DOMAIN a |-> [content |-> {headers} \cup {Row(t) : t \in 0..a[n].mtime},
                          mtime |-> a[n].mtime, locked |-> a[n].state = "locked",
                          denied |-> a[n].state = "denied"]] :
        a \in FaultAttributes}

InitFault == /\ username = (1 :> Bob @@ 2 :> Alice)
             /\ files \in FaultDirectories
             /\ excel_file \in {[p \in Procs |-> IF p \in Active THEN n ELSE Canonical(username[p])] :
                                  n \in {Canonical(Bob), InventoryCopy(Bob, 1)}}
             /\ running = [p \in Procs |-> TRUE]
             /\ clock = MaxClock
             /\ last = Idle
             /\ settings_file = [p \in Procs |-> NoFile]
             /\ last_settings_mtime = [p \in Procs |-> NeverLoaded]

SpecFault == InitFault /\ [][NextDir]_vars

\* ------------------------------------------------- users taking turns
\* Two users on the share, each with a process of their own.  A save cycle
\* (pre-save preparation, then the committed mutation) runs to completion
\* before anything else happens; no file is locked or denied; the clock
\* advances with every cycle, so every save has a larger modification time
\* than all before it.
MaxTurns == 5

InitTurns == /\ username = (1 :> Bob @@ 2 :> Alice)
             /\ files = [n \in {Canonical(Alice)} |-> NewFile({headers, Row(0)}, 0)]
             /\ excel_file = [p \in Procs |-> NoFile]
             /\ running = [p \in Procs |-> FALSE]
             /\ clock = 1
             /\ last = Idle
             /\ settings_file = [p \in Procs |-> NoFile]
             /\ last_settings_mtime = [p \in Procs |-> NeverLoaded]

SaveCycle(p) ==
    /\ running[p]
    /\ clock < MaxTurns
    /\ \E listing \in Glob(files) :
         \E r \in {manage_excel_files_on_save(username[p], files, excel_file[p],
                                             listing, clock)} :
            /\ files' = MutateAfter(r, clock)
            /\ excel_file' = [excel_file EXCEPT ![p] = r.excel_file]
            /\ \E l2 \in Glob(files') :
                 last' = Last("cycle", p, r, IF files' = r.fs THEN NoFile ELSE r.excel_file,
                              IF r.ok THEN get_newest_excel_file(files', l2) ELSE NoFile)
    /\ clock' = clock + 1
    /\ UNCHANGED <<username, settings_file, last_settings_mtime, running>>

NextTurns == \/ \E p \in Procs : Startup(p)
             \/ \E p \in Procs : SaveCycle(p)

SpecTurns == InitTurns /\ [][NextTurns]_vars

\* ------------------------------------------------------- claim vocabulary
User(p) == username[p]

HandlerOps == {"startup", "presave", "commit", "settings"}

PreSaveOps == {"presave", "commit"}

\* the files that belong to user u, by the names the program gives its files
Owns(u, n) == \/ n = Canonical(u)
              \/ \E t \in 1..MaxClock : n = InventoryCopy(u, t) \/ n = CurrentCopy(u, t)

Candidates(fs) == {n \in DOMAIN fs : ~IsTemp(n)}

AccessibleCandidates(fs) == {n \in Candidates(fs) : ~fs[n].denied}

IsNewestAccessible(fs, n) ==
    /\ n \in AccessibleCandidates(fs)
    /\ \A m \in AccessibleCandidates(fs) : fs[m].mtime <= fs[n].mtime

WorkingCopies(fs, u) == {n \in Candidates(fs) : IsWorkingCopy(n, u)}

Adopted == excel_file[last.p]

\* ------------------------------------------------------------------- C1
\* C1: no handler of user U's process writes, renames or deletes a workbook
\* that belongs to another user: every such file of the directory the
\* handler started from is still there, unchanged, when the handler returns.
C1_OtherUsersFilesUntouched ==
    last.op \in HandlerOps =>
        \A n \in Candidates(last.pre) :
            ~Owns(User(last.p), n) => n \in DOMAIN files /\ files[n] = last.pre[n]

C3_CanonicalAdopted ==
    (/\ last.op = "presave"
     /\ last.newest # NoFile
     /\ IsOwned(last.newest, User(last.p))
     /\ Writable(last.pre, last.newest)) =>
        /\ last.ok
        /\ Adopted = Canonical(User(last.p))
        /\ Adopted \in DOMAIN files
        /\ files[Adopted].content = last.pre[last.newest].content
        /\ \A n \in Candidates(files) :
               (StartsWith(n, User(last.p) \o <<"_", "inventory">>) /\ n # Adopted) =>
                   files[n].locked

\* ------------------------------------------------------------------- C4
\* C4: when the newest candidate is owned by the active user but locked,
\* pre-save preparation reports success, creates exactly one new file, named
\* {user}_inventory_<timestamp>.xlsx, with the locked file's content, adopts
\* it, and leaves the locked original with its name and content.
C4_LockedBranch ==
    (last.op = "presave" /\ last.branch = "locked") =>
        /\ last.ok
        /\ Adopted = InventoryCopy(User(last.p), clock - 1)
        /\ DOMAIN files \ DOMAIN last.pre = {Adopted}
        /\ files[Adopted].content = last.pre[last.newest].content
        /\ last.newest \in DOMAIN files
        /\ files[last.newest] = last.pre[last.newest]

C4_Witness ==
    /\ last.op = "presave" /\ last.branch = "locked" /\ last.ok
    /\ IsOwned(last.newest, User(last.p))
    /\ last.pre[last.newest].locked
    /\ Adopted # last.newest

\* ------------------------------------------------------------------- C5
\* C5: in startup preparation, in pre-save preparation and in
\* get_newest_excel_file alike, a candidate whose mtime cannot be read is
\* skipped and the newest of the accessible candidates is selected: the
\* operation does not fail and does not behave as if there were no candidate.
C5_DeniedCandidateSkipped ==
    /\ (/\ last.op \in {"startup"} \cup PreSaveOps
        /\ Denied(last.pre) # {}
        /\ AccessibleCandidates(last.pre) # {}) =>
           (last.ok /\ IsNewestAccessible(last.pre, last.newest))
    /\ (/\ last.op \in {"startup", "settings"}
        /\ Denied(files) # {}
        /\ AccessibleCandidates(files) # {}) =>
           IsNewestAccessible(files, last.loaded)

\* ------------------------------------------------------------------- C6
\* C6: self.excel_file of a running process is always the canonical
\* {user}_inventory.xlsx.
C6_ExcelFileCanonical ==
    \A p \in Active : running[p] => excel_file[p] = Canonical(User(p))

\* ------------------------------------------------------------------- C7
\* C7: when pre-save preparation reports failure, the mutating handler saves
\* no workbook: every file left has the content and mtime of a file that was
\* there before the handler ran.
C7_NoWriteAfterFailure ==
    (last.op = "commit" /\ ~last.ok) =>
        /\ last.wrote = NoFile
        /\ \A n \in DOMAIN files :
               \E m \in DOMAIN last.pre : /\ files[n].content = last.pre[m].content
                                          /\ files[n].mtime = last.pre[m].mtime

C7_Witness ==
    /\ last.op = "commit" /\ ~last.ok
    /\ Writable(files, Adopted)

\* ------------------------------------------------------------------- C8
\* C8: a handler that saves the inventory workbook has run pre-save
\* preparation first and writes the file that preparation adopted.
C8_WriteFollowsPreSave ==
    (last.op \in HandlerOps /\ last.wrote # NoFile) =>
        /\ last.branch # "none"
        /\ last.ok
        /\ last.wrote = Adopted

\* ------------------------------------------------------------------- C9
\* C9 as stated: after startup preparation or a successful pre-save
\* preparation, self.excel_file names an existing file the process can open
\* and save.
C9_Original ==
    (last.op \in {"startup"} \cup PreSaveOps /\ last.ok) => Writable(files, Adopted)

\* C9 (amended): after a pre-save preparation that reports success,
\* self.excel_file names an existing file that is not locked and can be
\* opened and saved; startup preparation gives no such guarantee.
C9_AdoptedWritable ==
    (last.op \in PreSaveOps /\ last.ok) => Writable(files, Adopted)

C9_Witness ==
    /\ last.op = "presave" /\ last.ok
    /\ last.newest # NoFile
    /\ last.pre[last.newest].locked
    /\ Writable(files, Adopted)

\* ------------------------------------------------------------------ C10
\* C10 as stated: after any pre-save preparation pass at most one timestamped
\* working copy of the active user exists.
C10_Original ==
    last.op \in PreSaveOps => Cardinality(WorkingCopies(files, User(last.p))) <= 1

\* C10 (amended): after a pre-save preparation pass that reports success,
\* every timestamped working copy of the active user other than the adopted
\* file is one that another process holds locked.
C10_OldCopiesDeleted ==
    (last.op \in PreSaveOps /\ last.ok) =>
        \A n \in WorkingCopies(files, User(last.p)) : n # Adopted => files[n].locked

C10_Witness ==
    /\ last.op = "presave" /\ last.ok /\ last.copy # NoFile
    /\ \E n \in WorkingCopies(last.pre, User(last.p)) : n \notin DOMAIN files

\* ------------------------------------------------------------------ C11
DistinctMtimes(fs) ==
    \A m, n \in Candidates(fs) : m # n => fs[m].mtime # fs[n].mtime

\* C11: when the candidates have pairwise distinct modification times,
\* get_newest_excel_file returns the accessible, non-temporary candidate of
\* greatest modification time, in whatever order the directory is listed.
C11_NewestSelected ==
    (/\ last.op = "discover"
     /\ DistinctMtimes(last.pre)
     /\ AccessibleCandidates(last.pre) # {}) =>
        /\ last.loaded \in AccessibleCandidates(last.pre)
        /\ \A m \in AccessibleCandidates(last.pre) \ {last.loaded} :
               last.pre[m].mtime < last.pre[last.loaded].mtime

C11_Witness ==
    /\ last.op = "discover"
    /\ DistinctMtimes(last.pre)
    /\ last.loaded # NoFile
    /\ last.listing[1] # last.loaded
    /\ Cardinality(AccessibleCandidates(last.pre)) >= 2
    /\ \E n \in Candidates(last.pre) :
          last.pre[n].denied /\ last.pre[n].mtime > last.pre[last.loaded].mtime

\* ------------------------------------------------------------------ C12
\* C12: when the newest accessible candidate at startup is not the canonical
\* path and the copy onto it succeeds, startup preparation ends with the
\* canonical {user}_inventory.xlsx holding exactly the newest candidate's
\* content, whatever it held before, and with self.excel_file the canonical
\* path.
C12_StartupCopy ==
    (last.op = "startup" /\ last.branch = "copied") =>
        /\ last.newest # Canonical(User(last.p))
        /\ Adopted = Canonical(User(last.p))
        /\ Adopted \in DOMAIN files
        /\ files[Adopted].content = last.pre[last.newest].content

C12_Witness ==
    /\ last.op = "startup" /\ last.branch = "copied"
    /\ Canonical(User(last.p)) \in DOMAIN last.pre
    /\ last.pre[Canonical(User(last.p))].content # last.pre[last.newest].content
    /\ files[Adopted].content = last.pre[last.newest].content

\* ------------------------------------------------------------------ C13
\* C13: every file that startup preparation deletes is a candidate of the
\* active user other than the adopted file; a file of a different user is
\* never deleted, also when the active user's name followed by "_" begins
\* the other user's file names.
C13_StartupDeletesOwnOnly ==
    last.op = "startup" =>
        \A n \in DOMAIN last.pre \ DOMAIN files :
            Owns(User(last.p), n) /\ ~IsTemp(n) /\ n # Adopted

\* ------------------------------------------------------------------ C14
\* C14: when the copy of the newest candidate onto the canonical path fails,
\* startup preparation still returns normally and adopts the newest
\* candidate's own path; when the cleanup cannot delete a stale duplicate of
\* the user, startup still returns normally, the adopted path is the
\* canonical one and every duplicate that can be deleted is deleted.
C14_StartupFailuresTolerated ==
    /\ (last.op = "startup" /\ last.branch = "fallback") =>
           /\ last.ok
           /\ Adopted = last.newest
           /\ Adopted \in DOMAIN files
    /\ (last.op = "startup" /\ last.branch \in {"copied", "same"}) =>
           /\ last.ok
           /\ Adopted = Canonical(User(last.p))
           /\ \A n \in Candidates(last.pre) :
                  (IsOwned(n, User(last.p)) /\ n # Adopted /\ Writable(last.pre, n)) =>
                      n \notin DOMAIN files

C14_Witness ==
    /\ last.op = "startup" /\ last.branch = "fallback"
    /\ Adopted = last.newest
    /\ Adopted # Canonical(User(last.p))
    /\ ~Writable(files, Canonical(User(last.p)))

\* ------------------------------------------------------------------ C15
\* C15: when the directory holds no candidate, startup preparation returns
\* normally with self.excel_file the canonical {user}_inventory.xlsx path and
\* leaves the directory exactly as it was: no file created, none deleted.
C15_StartupEmptyDirectory ==
    (last.op = "startup" /\ Candidates(last.pre) = {}) =>
        /\ last.ok
        /\ Adopted = Canonical(User(last.p))
        /\ files = last.pre

C15_Witness ==
    /\ last.op = "startup"
    /\ Candidates(last.pre) = {}
    /\ Adopted = Canonical(User(last.p))
    /\ Adopted \notin DOMAIN files

\* ------------------------------------------------------------------ C16
\* C16: when pre-save preparation finds no candidate in the directory, it
\* creates a workbook at {user}_inventory.xlsx whose only row is the header
\* Serial, Model, Name, Status, Checked Out By, Checked Out At, Serialized
\* Date, WIP Location, adopts that path and reports success.
C16_HeaderWorkbookCreated ==
    (last.op = "presave" /\ Candidates(last.pre) = {}) =>
        /\ last.ok
        /\ Adopted = Canonical(User(last.p))
        /\ Adopted \in DOMAIN files
        /\ files[Adopted].content =
               {<<"Serial", "Model", "Name", "Status", "Checked Out By", "Checked Out At",
                  "Serialized Date", "WIP Location">>}
        /\ DOMAIN files = DOMAIN last.pre \cup {Adopted}

C16_Witness ==
    /\ last.op = "presave"
    /\ Candidates(last.pre) = {}
    /\ last.ok
    /\ Adopted \in DOMAIN files
    /\ Adopted \notin DOMAIN last.pre

\* ------------------------------------------------------------------ C17
\* C17: every pre-save preparation call returns, either with success and
\* self.excel_file an existing file, or with failure; a locked file does not
\* hold the call up: on the locked branch it has made one copy and returned.
C17_PreSaveTerminates ==
    (last.op = "call") ~>
        (/\ last.op = "presave"
         /\ last.ok \in BOOLEAN
         /\ last.ok => Adopted \in DOMAIN files
         /\ last.branch = "locked" => Cardinality(DOMAIN files \ DOMAIN last.pre) <= 1)

C17_Witness ==
    /\ last.op = "call"
    /\ last.branch = "locked"
    /\ \E n \in Candidates(files) : files[n].locked /\ IsOwned(n, User(last.p))

\* ------------------------------------------------------------------ C18
\* C18: a file whose name begins with "~" is never selected as newest, never
\* adopted, never copied from and never deleted or changed by
\* get_newest_excel_file, startup preparation or pre-save preparation,
\* whatever its modification time and whatever follows the "~".
C18_TempFilesIgnored ==
    last.op \in {"discover", "startup", "presave"} =>
        /\ ~IsTemp(last.newest)
        /\ ~IsTemp(last.loaded)
        /\ ~IsTemp(Adopted)
        /\ \A n \in DOMAIN last.pre : IsTemp(n) => (n \in DOMAIN files /\ files[n] = last.pre[n])
        /\ \A n \in Candidates(files) :
               \/ files[n].content = {headers}
               \/ \E m \in Candidates(last.pre) : files[n].content = last.pre[m].content

C18_Witness ==
    /\ last.op \in {"startup", "presave"}
    /\ last.newest # NoFile
    /\ \E n \in DOMAIN last.pre :
          /\ IsTemp(n)
          /\ ~last.pre[n].denied
          /\ \A m \in Candidates(last.pre) : last.pre[m].mtime < last.pre[n].mtime
    /\ DOMAIN files # DOMAIN last.pre

\* ------------------------------------------------------------------ C19
\* C19: what a pre-save preparation call adopts and what it leaves in the
\* directory depends only on the directory and the user, not on the value
\* self.excel_file had before the call: a process whose self.excel_file is
\* what its earlier calls made it and a process of the same user that still
\* has the canonical path get the same outcome from the same listing.
C19_HistoryIndependent ==
    \A p \in Active :
        running[p] =>
            \A listing \in Glob(files) :
                LET a == manage_excel_files_on_save(User(p), files, excel_file[p],
                                                    listing, clock)
                    b == manage_excel_files_on_save(User(p), files, Canonical(User(p)),
                                                    listing, clock)
                IN a.ok = b.ok /\ a.excel_file = b.excel_file /\ a.fs = b.fs

\* ------------------------------------------------------------------ C20
TiedNewest(fs) ==
    {n \in AccessibleCandidates(fs) :
        \A m \in AccessibleCandidates(fs) : fs[m].mtime <= fs[n].mtime}

Pos(l, n) == CHOOSE i \in 1..Len(l) : l[i] = n

Selected == IF last.op = "discover" THEN last.loaded ELSE last.newest

\* C20: when several accessible candidates share the greatest modification
\* time, get_newest_excel_file, startup preparation and pre-save preparation
\* each select the one of them that comes first in the directory listing.
C20_FirstListedWins ==
    (/\ last.op \in {"discover", "startup", "presave"}
     /\ Cardinality(TiedNewest(last.pre)) >= 2) =>
        /\ Selected \in TiedNewest(last.pre)
        /\ \A m \in TiedNewest(last.pre) :
               Pos(last.listing, Selected) <= Pos(last.listing, m)

\* ------------------------------------------------------------------ C21
\* C21: whatever the sequence of startup settings loads, auto-refresh reloads
\* and settings saves, also when the newest settings file is another user's
\* and cannot be parsed, a handler of user U's process writes no *.json
\* settings file other than U's own {U}_settings.json.
C21_OwnSettingsFileOnly ==
    last.op \in {"load_settings", "auto_refresh", "save_settings"} =>
        \A n \in DOMAIN files \cup DOMAIN last.pre :
            (IsJson(n) /\ n # SettingsName(User(last.p))) =>
                /\ n \in DOMAIN files
                /\ n \in DOMAIN last.pre
                /\ files[n] = last.pre[n]

\* ------------------------------------------------------------------ C22
RowOps == {"checkout", "checkin", "discontinue", "add", "delete"}

Sheet == files[Adopted].content

StatusBefore == StatusOf(last.before, last.in.serial)

StatusAfter == StatusOf(Sheet, last.in.serial)

OtherRowsKept == \A r \in DataRows(last.before) : r[2] # last.in.serial => r \in Sheet

\* C22: a checkout changes a fixture's status only from Available, to WIP
\* when the WIP box is ticked and to Checked Out when it is not, and changes
\* nothing for any other current status; a check-in changes it only from
\* Checked Out or WIP, to Available, and changes nothing for any other
\* current status; so a Discontinued fixture stays Discontinued under both.
C22_StatusTransitions ==
    (last.op \in {"checkout", "checkin"} /\ last.loaded_rows) =>
        /\ OtherRowsKept
        /\ StatusAfter # StatusBefore =>
              \/ /\ last.op = "checkout"
                 /\ StatusBefore = "Available"
                 /\ StatusAfter = IF last.in.is_wip THEN "WIP" ELSE "Checked Out"
              \/ /\ last.op = "checkin"
                 /\ StatusBefore \in {"Checked Out", "WIP"}
                 /\ StatusAfter = "Available"
        /\ (last.op = "checkout" /\ StatusBefore # "Available") => Sheet = last.before
        /\ (last.op = "checkin" /\ StatusBefore \notin {"Checked Out", "WIP"}) =>
              Sheet = last.before
        /\ StatusBefore = "Discontinued" => StatusAfter = "Discontinued"

C22_Witness ==
    /\ last.op \in {"checkout", "checkin"}
    /\ last.loaded_rows
    /\ last.in.person # ""
    /\ StatusBefore = "Discontinued"
    /\ \E r \in DataRows(Sheet) : r[3] = "WIP"

\* ------------------------------------------------------------------ C23
UniqueSerials(sheet) ==
    \A r, q \in DataRows(sheet) : r[2] = q[2] => r = q

\* C23: from a header-only workbook, after any sequence of the five
\* operations no two data rows of a workbook carry the same serial, and an
\* add-fixture whose serial is already in the workbook leaves it unchanged.
C23_SerialsUnique ==
    /\ \A n \in DOMAIN files : UniqueSerials(files[n].content)
    /\ (last.op = "add" /\ last.loaded_rows /\ last.in.serial \in SerialsOf(last.before)) =>
          /\ Sheet = last.before
          /\ ~last.saved

C23_Witness ==
    /\ last.op = "add"
    /\ last.loaded_rows
    /\ last.in.fixture_type \in registered_types
    /\ last.in.serial \in SerialsOf(last.before)
    /\ StatusBefore = "Checked Out"
    /\ Cardinality(DataRows(Sheet)) = 2

\* ------------------------------------------------------------------ C30
\* C30: from a header-only workbook, after any sequence of the five
\* operations the WIP Location of a row is non-empty exactly when the
\* Status of the row is WIP.
C30_WipLocationIffWip ==
    \A n \in DOMAIN files :
        \A r \in DataRows(files[n].content) : (r[4] # "") <=> (r[3] = "WIP")

C30_Witness ==
    /\ last.op = "checkin"
    /\ last.saved
    /\ StatusBefore = "WIP"
    /\ \E r \in DataRows(Sheet) : r[3] = "WIP" /\ r[4] # ""

\* ------------------------------------------------------------------ C24
StartupCopiedOther ==
    /\ last.op = "startup"
    /\ last.branch = "copied"
    /\ ~IsOwned(last.newest, User(last.p))

PreSaveFollows ==
    /\ last'.op \in PreSaveOps
    /\ last'.p = last.p

\* C24: when startup preparation has copied another user's newest workbook
\* onto the canonical path and the next step is a pre-save preparation of the
\* same process on the directory as startup left it, that pre-save takes the
\* owned branch and adopts the canonical workbook, and creates no working
\* copy.
C24_OwnedAfterStartupCopy ==
    [][(StartupCopiedOther /\ PreSaveFollows) =>
          /\ last'.ok
          /\ last'.branch = "owned"
          /\ excel_file'[last.p] = Canonical(User(last.p))
          /\ last'.copy = NoFile
          /\ DOMAIN files' = DOMAIN files]_vars

PreparationOps == {"startup", "presave"}

NewestContent == last.pre[last.newest].content

\* C26: when startup preparation or pre-save preparation returns, with no
\* other process acting during the call, some file of the directory holds
\* the content that the candidate chosen as newest had when the call began,
\* whether the call succeeded, fell back or failed and whichever remove,
\* rename or copy on the way failed.
C26_NewestContentKept ==
    (last.op \in PreparationOps /\ last.newest # NoFile) =>
        \E n \in DOMAIN files : files[n].content = NewestContent

C26_Witness ==
    /\ last.op \in PreparationOps
    /\ last.newest # NoFile
    /\ last.newest \notin DOMAIN files
    /\ DOMAIN files # DOMAIN last.pre
    /\ \E n \in DOMAIN last.pre : last.pre[n].locked
    /\ \A n \in DOMAIN last.pre : n # last.newest => last.pre[n].content # NewestContent

\* ------------------------------------------------------------------ C27
\* the mutations committed so far: the one the directory started with and
\* one for every save cycle since
Committed == {Row(t) : t \in 0..(clock - 1)}

NewestFiles(fs) ==
    {n \in Candidates(fs) : \A m \in Candidates(fs) : fs[m].mtime <= fs[n].mtime}

\* C27: when save cycles of the users do not overlap, no file is locked or
\* denied and every save has a larger modification time than all before it,
\* the newest workbook of the directory (each of them, where a startup copy
\* shares the modification time of its source) holds every mutation
\* committed so far by any user.
C27_NewestHoldsAllMutations ==
    /\ NewestFiles(files) # {}
    /\ \A n \in NewestFiles(files) : Committed \subseteq files[n].content

C27_Witness ==
    /\ last.op = "cycle"
    /\ last.p = 1
    /\ last.branch = "other"
    /\ clock = MaxTurns
    /\ \E n \in DOMAIN last.pre : IsOwned(n, Bob) /\ Row(1) \in last.pre[n].content
    /\ excel_file[2] \in DOMAIN files
    /\ ~(Committed \subseteq files[excel_file[2]].content)

\* ------------------------------------------------------------------ C28
SecondPreSave ==
    /\ last.op = "presave"
    /\ last'.op \in PreSaveOps
    /\ last'.p = last.p

SameFilesAfter == DOMAIN files' = DOMAIN files

\* C28: when pre-save preparation is called twice in a row by one process
\* and nothing else touches the directory or the locks in between, the
\* second call succeeds, adopts the path the first call adopted, and
\* creates, renames and deletes no file.
C28_SecondCallIdempotent ==
    [][SecondPreSave =>
          /\ last'.ok
          /\ excel_file'[last.p] = excel_file[last.p]
          /\ SameFilesAfter]_vars

\* ------------------------------------------------------------------ C29
StrictlyNewest(fs, n) ==
    /\ Exists(fs, n)
    /\ \A m \in AccessibleCandidates(fs) : m # n => fs[m].mtime < fs[n].mtime

\* C29: when pre-save preparation has succeeded and no other process has
\* written since, the adopted file exists and is newer than every other
\* accessible candidate, so the read of the newest workbook that closes the
\* handler (load_data) opens the file the mutation was written to.
C29_AdoptedIsNewest ==
    (last.op \in PreSaveOps /\ last.ok) =>
        /\ StrictlyNewest(files, Adopted)
        /\ last.op = "commit" => last.loaded = Adopted

C29_Witness ==
    /\ last.op = "commit"
    /\ last.ok
    /\ last.branch = "locked"
    /\ last.wrote = Adopted
    /\ last.loaded = Adopted
    /\ Cardinality(AccessibleCandidates(files)) >= 2

====
